---- MODULE Spec2Model ----
(***************************************************************************)
(* Model of the upload command of rimmich-uploader (src/src/main.rs):      *)
(* main's connectivity check, upload_directory's scan and its              *)
(* buffer_unordered batch, and upload_file's stages between await points.  *)
(***************************************************************************)
EXTENDS Integers, Sequences, FiniteSets, TLC

VARIABLES
    pc,          \* position of main: "connect", "upload", "batch", "done", "error", "hung"
    exit,        \* what main returns: "none", "ok", or the error it bails with
    concurrent,  \* cli.concurrent (usize)
    directory,   \* kind of the path given on the command line: "dir", "file", "missing"
    recursive,   \* the --recursive flag
    tree,        \* the directory entries WalkDir can yield below the root
    pingResp,    \* the answer check_connection got ("none" before it ran)
    files,       \* the Vec of discovered paths
    iterPos,     \* how many elements stream::iter(files) has handed out
    sched,       \* position inside BufferUnordered::poll_next: "fill" or "poll"
    inProgress,  \* in_progress_queue: path -> slot of its future
    invocations, \* path -> number of upload_file calls started
    requests,    \* path -> number of POST /api/assets requests sent
    fileReads,   \* path -> number of tokio::fs::read calls
    outcomes,    \* path -> sequence of results upload_file returned
    lastResponse,\* the server answer of the most recent upload_file return
    pb,          \* the indicatif progress bar: len, pos, lines, finished
    cli,         \* the parsed command line of the process
    disk,        \* the configuration file ~/.immich/config.toml
    saved,       \* whether the process has called config.save()
    target,      \* the (server_url, api_key) pair main resolved
    pinged,      \* the server the ping request went to
    run,         \* which run of the upload command this is (1 or 2)
    server,      \* how the remote server answers upload requests
    sentIds      \* path -> the deviceAssetId of each upload request sent

vars == <<pc, exit, concurrent, directory, recursive, tree, pingResp, files,
          iterPos, sched, inProgress, invocations, requests, fileReads,
          outcomes, lastResponse, pb, cli, disk, saved, target, pinged, run,
          server, sentIds>>

\* What an upload batch leaves alone.
procVars == <<cli, disk, saved, target, run, server>>

-----------------------------------------------------------------------------
(* Bounds and input universes *)

MaxConcurrent == 2

\* HTTP statuses the server is made to answer with.
PingStatuses == {200, 500}
UploadStatuses == {200, 201, 400, 409, 500}

\* Response bodies, as sequences of words.
PingBodies == { <<"pong">>, <<>>, <<"error">> }
UploadBodies == { <<>>, <<"asset", "already", "exists">>, <<"exists", "already">> }

\* Directory entries: path, depth below the root, file type, guessed mime
\* type (top-level type only), and whether WalkDir yields an error for it.
Entry(p, d, t, m, e) == [path |-> p, depth |-> d, ftype |-> t, mime |-> m, err |-> e]

MediaEntries ==
    { Entry("a.jpg", 1, "file", "image", FALSE),
      Entry("b.mp4", 1, "file", "video", FALSE),
      Entry("sub/c.png", 2, "file", "image", FALSE) }

OtherEntries ==
    { Entry("notes.txt", 1, "file", "text", FALSE),
      Entry("data", 1, "file", "application", FALSE),
      Entry("sub", 1, "dir", "application", FALSE),
      Entry("link.jpg", 1, "symlink", "image", FALSE),
      Entry("broken", 1, "file", "image", TRUE) }

\* The order in which the filesystem lists the entries.
DirOrder ==
    << Entry("a.jpg", 1, "file", "image", FALSE),
       Entry("notes.txt", 1, "file", "text", FALSE),
       Entry("broken", 1, "file", "image", TRUE),
       Entry("b.mp4", 1, "file", "video", FALSE),
       Entry("data", 1, "file", "application", FALSE),
       Entry("sub", 1, "dir", "application", FALSE),
       Entry("link.jpg", 1, "symlink", "image", FALSE),
       Entry("sub/c.png", 2, "file", "image", FALSE) >>

Paths == { e.path : e \in MediaEntries \cup OtherEntries }

NoResponse == [kind |-> "none", status |-> 0, body |-> <<>>]

\* No upload_file has returned yet.
NoUpload == [kind |-> "none", status |-> 0, body |-> <<>>, path |-> ""]

\* A slot of the in-progress queue: the stage of the future of one path
\* ("none" when the path has no future in the queue) and the status it
\* holds while it reads an error body.
Slot(stage, status) == [stage |-> stage, status |-> status]

-----------------------------------------------------------------------------
(* Pure helpers *)

\* str::contains on word sequences: needle occurs as a contiguous run.
Contains(body, needle) ==
    \E i \in 0..(Len(body) - Len(needle)) :
        \A j \in 1..Len(needle) : body[i + j] = needle[j]

\* StatusCode::is_success
is_success(status) == status >= 200 /\ status <= 299

\* A filter that forgets the videos.
is_image_or_video_ImageOnly(mime) == mime = "image"

\* is_image_or_video
is_image_or_video(mime) == mime = "image" \/ mime = "video"

\* check_connection without the test of the body.
check_connection_AnyBody(resp) ==
    IF resp.kind = "transport" THEN "transport error"
    ELSE IF ~is_success(resp.status) THEN "Server ping failed"
    ELSE "ok"

\* check_connection: "ok", or the error it returns.
check_connection(resp) ==
    IF resp.kind = "transport" THEN "transport error"
    ELSE IF ~is_success(resp.status) THEN "Server ping failed"
    ELSE IF resp.kind = "body_error" THEN "body error"
    ELSE IF ~Contains(resp.body, <<"pong">>) THEN "Unexpected response from ping"
    ELSE "ok"

\* The results upload_file can return.
Ok(kind) == [ok |-> TRUE, kind |-> kind, reason |-> "none", status |-> 0, body |-> <<>>]
Err(reason, status, body) ==
    [ok |-> FALSE, kind |-> "Failed", reason |-> reason, status |-> status, body |-> body]

\* The classification with the status test alone.
ClassifyError_StatusOnly(status, body) ==
    IF status = 409
    THEN Ok("AlreadyExists")
    ELSE Err("Server returned error", status, body)

\* upload_file after the response arrived with a non-2xx status and the
\* body was read.
ClassifyError(status, body) ==
    IF status = 409 \/ Contains(body, <<"already", "exists">>)
    THEN Ok("AlreadyExists")
    ELSE Err("Server returned error", status, body)

\* Result::unwrap_or_default on the body read
unwrap_or_default(bodyRes) == IF bodyRes.err THEN <<>> ELSE bodyRes.body

\* A directory test that accepts every existing path.
is_dir_Exists(kind) == kind # "missing"

\* Path::is_dir
is_dir(kind) == kind = "dir"

\* A scan that never reports an empty result.
is_empty_Never(found) == FALSE

\* Vec::is_empty
is_empty(found) == found = <<>>

\* The walk of upload_directory: the entries WalkDir yields, filtered.
\* Without --recursive the walker has max_depth(1).
RECURSIVE Walk(_, _, _)
Walk(order, present, rec) ==
    IF order = <<>> THEN <<>>
    ELSE LET e == Head(order)
             rest == Walk(Tail(order), present, rec)
         IN IF e \in present /\ (rec \/ e.depth <= 1) /\ ~e.err
               /\ e.ftype = "file" /\ is_image_or_video(e.mime)
            THEN <<e.path>> \o rest
            ELSE rest

\* The futures in in_progress_queue.
Queue == { p \in Paths : inProgress[p].stage # "none" }

\* Admission with the bound off by one upwards.
CanAdmit_Inclusive(n, max) == n <= max

\* Admission with the bound off by one downwards.
CanAdmit_Short(n, max) == n + 1 < max

\* BufferUnordered::poll_next: room for one more future.
CanAdmit(n, max) == n < max

\* An iterator that skips every other element.
IterNext_Skip(i) == i + 2

\* stream::iter: the position after handing out one element.
IterNext(i) == i + 1

\* ProgressBar::inc
pb_inc(bar, delta) == [bar EXCEPT !.pos = @ + delta]

\* ProgressBar::println
pb_println(bar, line) == [bar EXCEPT !.lines = Append(@, line)]

\* The match with the Err arm forgetting pb.inc.
Report_NoIncOnErr(bar, path, result) ==
    IF result.ok
    THEN pb_inc(bar, 1)
    ELSE pb_println(bar, [path |-> path, reason |-> result.reason,
                          status |-> result.status, body |-> result.body])

\* The match with the Err arm forgetting pb.println.
Report_Silent(bar, path, result) == pb_inc(bar, 1)

\* The match on upload_file's result in the async block.
Report(bar, path, result) ==
    IF result.ok
    THEN pb_inc(bar, 1)
    ELSE pb_inc(pb_println(bar, [path |-> path, reason |-> result.reason,
                                 status |-> result.status, body |-> result.body]), 1)

\* A request that is sent a second time.
Sent_Twice(reqs, p) == [reqs EXCEPT ![p] = @ + 2]

\* One more request sent for path p.
Sent(reqs, p) == [reqs EXCEPT ![p] = @ + 1]

-----------------------------------------------------------------------------
(* Command line, configuration and credentials *)

\* Server URLs: the text up to the trailing slashes, and how many follow.
Url(base, slashes) == [base |-> base, slashes |-> slashes]
NoUrl == Url("", 0)

Names == {"alice", "bob"}
Urls == { Url("http://nas:2283", 0), Url("http://nas:2283", 1), Url("https://cloud", 0) }
Keys == {"k1", "k2"}

\* Option<T>
Some(v) == [some |-> TRUE, v |-> v]
NoneStr == [some |-> FALSE, v |-> ""]
NoneUrl == [some |-> FALSE, v |-> NoUrl]

\* An entry of Config.users: a UserConfig, or no entry under that name.
UserConfig(url, key) == [present |-> TRUE, server_url |-> url, api_key |-> key]
NoUser == [present |-> FALSE, server_url |-> NoUrl, api_key |-> ""]

\* Config::default
DefaultConfig == [current_user |-> NoneStr, users |-> [n \in Names |-> NoUser]]

\* toml::to_string_pretty: a None current_user is left out, users becomes
\* one table per name.
to_toml(config) ==
    [exists |-> TRUE,
     current_user |-> IF config.current_user.some THEN {config.current_user.v} ELSE {},
     users |-> { [name |-> n, server_url |-> config.users[n].server_url,
                  api_key |-> config.users[n].api_key] :
                 n \in { m \in Names : config.users[m].present } }]

\* toml::from_str
from_toml(file) ==
    [current_user |-> IF file.current_user = {} THEN NoneStr
                      ELSE Some(CHOOSE n \in file.current_user : TRUE),
     users |-> [n \in Names |->
                  IF \E u \in file.users : u.name = n
                  THEN LET u == CHOOSE x \in file.users : x.name = n
                       IN UserConfig(u.server_url, u.api_key)
                  ELSE NoUser]]

\* No configuration file.
NoFile == [exists |-> FALSE, current_user |-> {}, users |-> {}]

\* Config::load
load(file) == IF ~file.exists THEN DefaultConfig ELSE from_toml(file)

\* Config::get_current_user
get_current_user(config) ==
    IF config.current_user.some /\ config.users[config.current_user.v].present
    THEN Some(config.current_user.v)
    ELSE NoneStr

\* What a user subcommand does: the configuration it leaves in memory,
\* whether it calls config.save(), and how it ends.
Done(config, save, result) == [config |-> config, save |-> save, exit |-> result]

\* UserCommands::Add
user_add(config, name, url, key, default) ==
    LET users == [config.users EXCEPT ![name] = UserConfig(url, key)]
        current == IF default \/ ~config.current_user.some
                   THEN Some(name) ELSE config.current_user
    IN Done([current_user |-> current, users |-> users], TRUE, "ok")

\* A delete that leaves current_user as it is.
user_delete_KeepCurrent(config, name) ==
    IF config.users[name].present
    THEN Done([config EXCEPT !.users[name] = NoUser], TRUE, "ok")
    ELSE Done(config, FALSE, "User not found")

\* UserCommands::Delete
user_delete(config, name) ==
    IF config.users[name].present
    THEN Done([current_user |-> IF config.current_user = Some(name)
                                THEN NoneStr ELSE config.current_user,
               users |-> [config.users EXCEPT ![name] = NoUser]], TRUE, "ok")
    ELSE Done(config, FALSE, "User not found")

\* A default that does not look the name up.
user_default_Unchecked(config, name) ==
    Done([config EXCEPT !.current_user = Some(name)], TRUE, "ok")

\* UserCommands::Default
user_default(config, name) ==
    IF config.users[name].present
    THEN Done([config EXCEPT !.current_user = Some(name)], TRUE, "ok")
    ELSE Done(config, FALSE, "User not found")

\* str::trim_end_matches('/')
trim_end_matches(url) == Url(url.base, 0)

\* The resolved (server_url, api_key) pair, or the error main ends with.
Target(url, key) == [ok |-> TRUE, server_url |-> url, api_key |-> key, err |-> "none"]
NoTarget(err) == [ok |-> FALSE, server_url |-> NoUrl, api_key |-> "", err |-> err]

\* main, Commands::Upload: where server_url and api_key come from.
resolve(c, config) ==
    IF c.server.some /\ c.key.some
    THEN Target(trim_end_matches(c.server.v), c.key.v)
    ELSE IF c.user.some
         THEN IF config.users[c.user.v].present
              THEN Target(trim_end_matches(config.users[c.user.v].server_url),
                          config.users[c.user.v].api_key)
              ELSE NoTarget("User not found in config")
         ELSE LET cur == get_current_user(config)
              IN IF cur.some
                 THEN Target(trim_end_matches(config.users[cur.v].server_url),
                             config.users[cur.v].api_key)
                 ELSE NoTarget("No current user set")

\* A parsed command line.
Cli(command, name, srv, key, user, default, skip) ==
    [command |-> command, name |-> name, server |-> srv, key |-> key,
     user |-> user, default |-> default, skip_existing |-> skip]

\* rimmich-uploader --server .. --key .. upload <directory>
UploadCli(skip) ==
    Cli("upload", "", Some(Url("http://nas:2283", 1)), Some("k1"), NoneStr, FALSE, skip)

\* The device_id of upload_directory.
DeviceId == "rimmich-uploader"

\* A hasher keyed anew by every process.
DefaultHasher_Seeded(path) == [algorithm |-> "SipHash-1-3", key |-> run, input |-> path]

\* DefaultHasher::new() (fixed keys), path.hash, finish.
DefaultHasher(path) == [algorithm |-> "SipHash-1-3", key |-> 0, input |-> path]

\* upload_file: format!("{}-{}", device_id, hasher.finish())
device_asset_id(device_id, path) == [device |-> device_id, hash |-> DefaultHasher(path)]

\* A server that answers as it likes (created is the 2xx status it uses).
AnyServer == [mode |-> "any", created |-> 200]

\* The state of a process when it starts.
Fresh ==
    /\ exit = "none"
    /\ pingResp = NoResponse
    /\ files = <<>>
    /\ iterPos = 0
    /\ sched = "fill"
    /\ inProgress = [p \in Paths |-> Slot("none", 0)]
    /\ pb = [len |-> 0, pos |-> 0, lines |-> <<>>, finished |-> FALSE]
    /\ saved = FALSE
    /\ pinged = NoUrl

\* Nothing has been uploaded yet.
NoHistory ==
    /\ invocations = [p \in Paths |-> 0]
    /\ requests = [p \in Paths |-> 0]
    /\ fileReads = [p \in Paths |-> 0]
    /\ outcomes = [p \in Paths |-> <<>>]
    /\ lastResponse = NoUpload
    /\ sentIds = [p \in Paths |-> <<>>]
    /\ run = 1

-----------------------------------------------------------------------------
(* Initial state: the command line and the filesystem *)

Init ==
    /\ pc = "connect"
    /\ exit = "none"
    /\ concurrent \in 0..MaxConcurrent
    /\ directory \in {"dir", "file", "missing"}
    /\ recursive \in BOOLEAN
    /\ tree \in IF directory = "dir"
                THEN { OtherEntries \cup m : m \in SUBSET MediaEntries }
                ELSE { {} }
    /\ pingResp = NoResponse
    /\ files = <<>>
    /\ iterPos = 0
    /\ sched = "fill"
    /\ inProgress = [p \in Paths |-> Slot("none", 0)]
    /\ invocations = [p \in Paths |-> 0]
    /\ requests = [p \in Paths |-> 0]
    /\ fileReads = [p \in Paths |-> 0]
    /\ outcomes = [p \in Paths |-> <<>>]
    /\ lastResponse = NoUpload
    /\ pb = [len |-> 0, pos |-> 0, lines |-> <<>>, finished |-> FALSE]
    /\ cli = UploadCli(FALSE)
    /\ disk = NoFile
    /\ saved = FALSE
    /\ target = resolve(cli, load(disk))
    /\ pinged = NoUrl
    /\ run = 1
    /\ server = AnyServer
    /\ sentIds = [p \in Paths |-> <<>>]

-----------------------------------------------------------------------------
(* main: connectivity check *)

PingResponses ==
    { [kind |-> "transport", status |-> 0, body |-> <<>>] }
    \cup { [kind |-> "body_error", status |-> s, body |-> <<>>] : s \in PingStatuses }
    \cup { [kind |-> "response", status |-> s, body |-> b] : s \in PingStatuses, b \in PingBodies }

CheckConnection ==
    /\ pc = "connect"
    /\ \E resp \in PingResponses :
        /\ pingResp' = resp
        /\ IF check_connection(resp) = "ok"
           THEN /\ pc' = "upload"
                /\ exit' = exit
           ELSE /\ pc' = "error"
                /\ exit' = "Failed to connect to Immich server"
    /\ pinged' = target.server_url
    /\ UNCHANGED <<procVars, sentIds>>
    /\ UNCHANGED <<concurrent, directory, recursive, tree, files, iterPos, sched,
                   inProgress, invocations, requests, fileReads, outcomes,
                   lastResponse, pb>>

-----------------------------------------------------------------------------
(* upload_directory up to its first await: directory check, scan, progress *)
(* bar and stream construction                                             *)

UploadDirectory ==
    /\ pc = "upload"
    /\ IF ~is_dir(directory)
       THEN /\ pc' = "error"
            /\ exit' = "is not a directory"
            /\ UNCHANGED <<files, pb>>
       ELSE LET found == Walk(DirOrder, tree, recursive)
            IN /\ files' = found
               /\ IF is_empty(found)
                  THEN /\ pc' = "done"
                       /\ exit' = "ok"
                       /\ pb' = pb
                  ELSE /\ pc' = "batch"
                       /\ exit' = exit
                       /\ pb' = [pb EXCEPT !.len = Len(found)]
    /\ UNCHANGED <<procVars, pinged, sentIds>>
    /\ UNCHANGED <<concurrent, directory, recursive, tree, pingResp, iterPos, sched,
                   inProgress, invocations, requests, fileReads, outcomes,
                   lastResponse>>

-----------------------------------------------------------------------------
(* BufferUnordered::poll_next, driven by `while requests.next().await`     *)

\* The fill loop pulls the next async block from the mapped iterator.
Admit ==
    /\ pc = "batch"
    /\ sched = "fill"
    /\ CanAdmit(Cardinality(Queue), concurrent)
    /\ iterPos < Len(files)
    /\ inProgress' = [inProgress EXCEPT ![files[iterPos + 1]] = Slot("created", 0)]
    /\ iterPos' = IterNext(iterPos)
    /\ UNCHANGED <<procVars, pinged, sentIds>>
    /\ UNCHANGED <<pc, exit, concurrent, directory, recursive, tree, pingResp, files,
                   sched, invocations, requests, fileReads, outcomes,
                   lastResponse, pb>>

\* A scheduler that polls without filling the queue first.
FillOver_Eager == TRUE

\* The fill loop is over (queue full or iterator exhausted).
FillOver == ~CanAdmit(Cardinality(Queue), concurrent) \/ iterPos >= Len(files)

\* The queue holds futures: poll them.
StartPolling ==
    /\ pc = "batch"
    /\ sched = "fill"
    /\ FillOver
    /\ Queue # {}
    /\ sched' = "poll"
    /\ UNCHANGED <<procVars, pinged, sentIds>>
    /\ UNCHANGED <<pc, exit, concurrent, directory, recursive, tree, pingResp, files,
                   iterPos, inProgress, invocations, requests, fileReads, outcomes,
                   lastResponse, pb>>

\* Queue empty and iterator exhausted: the stream ends, the loop exits,
\* pb.finish_with_message, Ok(()).
StreamEnd ==
    /\ pc = "batch"
    /\ sched = "fill"
    /\ FillOver
    /\ Queue = {}
    /\ iterPos >= Len(files)
    /\ pb' = [pb EXCEPT !.finished = TRUE]
    /\ pc' = "done"
    /\ exit' = "ok"
    /\ UNCHANGED <<procVars, pinged, sentIds>>
    /\ UNCHANGED <<concurrent, directory, recursive, tree, pingResp, files,
                   iterPos, sched, inProgress, invocations, requests, fileReads,
                   outcomes, lastResponse>>

\* Queue empty and iterator not exhausted: poll_next returns Pending with
\* no future left to wake the task.
StreamPending ==
    /\ pc = "batch"
    /\ sched = "fill"
    /\ FillOver
    /\ Queue = {}
    /\ iterPos < Len(files)
    /\ pc' = "hung"
    /\ UNCHANGED <<procVars, pinged, sentIds>>
    /\ UNCHANGED <<exit, concurrent, directory, recursive, tree, pingResp, files,
                   iterPos, sched, inProgress, invocations, requests, fileReads,
                   outcomes, lastResponse, pb>>

-----------------------------------------------------------------------------
(* The async block of one path: upload_file, then the match on its result  *)

\* A block that propagates the error out of the batch (`?` on the result):
\* the stream is dropped with the futures it holds and main returns Err.
Complete_Propagate(p, result) ==
    /\ outcomes' = [outcomes EXCEPT ![p] = Append(@, result)]
    /\ IF result.ok
       THEN /\ pb' = Report(pb, p, result)
            /\ inProgress' = [inProgress EXCEPT ![p] = Slot("none", 0)]
            /\ sched' = "fill"
            /\ UNCHANGED <<pc, exit>>
       ELSE /\ pb' = pb
            /\ inProgress' = [q \in Paths |-> Slot("none", 0)]
            /\ sched' = "fill"
            /\ pc' = "error"
            /\ exit' = result.reason

\* upload_file returned `result`: the block reports it and completes, its
\* future leaves the queue and poll_next yields Some(()).
Complete(p, result) ==
    /\ outcomes' = [outcomes EXCEPT ![p] = Append(@, result)]
    /\ pb' = Report(pb, p, result)
    /\ inProgress' = [inProgress EXCEPT ![p] = Slot("none", 0)]
    /\ sched' = "fill"
    /\ UNCHANGED <<pc, exit>>

\* First poll: metadata, timestamps, filename, path hash, start of the read.
\* (Part::mime_str cannot fail on a type mime_guess produced.)
FirstPoll(p) ==
    /\ pc = "batch"
    /\ sched = "poll"
    /\ inProgress[p].stage = "created"
    /\ invocations' = [invocations EXCEPT ![p] = @ + 1]
    /\ \E fs \in {"ok", "metadata", "filename"} :
        IF fs = "ok"
        THEN /\ inProgress' = [inProgress EXCEPT ![p] = Slot("reading", 0)]
             /\ fileReads' = [fileReads EXCEPT ![p] = @ + 1]
             /\ UNCHANGED <<pc, exit, sched, outcomes, pb>>
        ELSE /\ Complete(p, Err(IF fs = "metadata" THEN "io error" ELSE "Invalid filename",
                                0, <<>>))
             /\ UNCHANGED fileReads
    /\ UNCHANGED <<procVars, pinged, sentIds>>
    /\ UNCHANGED <<concurrent, directory, recursive, tree, pingResp, files, iterPos,
                   requests, lastResponse>>

\* tokio::fs::read resolved; on success the form is built and the request sent.
ReadDone(p) ==
    /\ pc = "batch"
    /\ sched = "poll"
    /\ inProgress[p].stage = "reading"
    /\ \E ok \in BOOLEAN :
        IF ok
        THEN /\ inProgress' = [inProgress EXCEPT ![p] = Slot("sending", 0)]
             /\ requests' = Sent(requests, p)
             /\ sentIds' = [sentIds EXCEPT
                              ![p] = Append(@, device_asset_id(DeviceId, p))]
             /\ UNCHANGED <<pc, exit, sched, outcomes, pb>>
        ELSE /\ Complete(p, Err("io error", 0, <<>>))
             /\ UNCHANGED <<requests, sentIds>>
    /\ UNCHANGED <<procVars, pinged>>
    /\ UNCHANGED <<concurrent, directory, recursive, tree, pingResp, files, iterPos,
                   invocations, fileReads, lastResponse>>

\* send() resolved: transport error, 2xx, or a status whose body is read next.
ResponseArrives(p) ==
    /\ pc = "batch"
    /\ sched = "poll"
    /\ inProgress[p].stage = "sending"
    /\ \/ /\ Complete(p, Err("transport error", 0, <<>>))
          /\ lastResponse' = [kind |-> "transport", status |-> 0, body |-> <<>>, path |-> p]
       \/ \E s \in UploadStatuses :
            IF is_success(s)
            THEN /\ Complete(p, Ok("Uploaded"))
                 /\ lastResponse' = [kind |-> "response", status |-> s, body |-> <<>>, path |-> p]
            ELSE /\ inProgress' = [inProgress EXCEPT ![p] = Slot("body", s)]
                 /\ UNCHANGED <<pc, exit, sched, outcomes, pb, lastResponse>>
    /\ UNCHANGED <<procVars, pinged, sentIds>>
    /\ UNCHANGED <<concurrent, directory, recursive, tree, pingResp, files, iterPos,
                   invocations, requests, fileReads>>

BodyResults ==
    { [err |-> TRUE, body |-> <<>>] } \cup { [err |-> FALSE, body |-> b] : b \in UploadBodies }

\* response.text() resolved for a non-2xx status.
BodyArrives(p) ==
    /\ pc = "batch"
    /\ sched = "poll"
    /\ inProgress[p].stage = "body"
    /\ \E bodyRes \in BodyResults :
        LET status == inProgress[p].status
            body == unwrap_or_default(bodyRes)
        IN /\ Complete(p, ClassifyError(status, body))
           /\ lastResponse' = [kind |-> "response", status |-> status, body |-> body, path |-> p]
    /\ UNCHANGED <<procVars, pinged, sentIds>>
    /\ UNCHANGED <<concurrent, directory, recursive, tree, pingResp, files, iterPos,
                   invocations, requests, fileReads>>

-----------------------------------------------------------------------------

Next ==
    \/ CheckConnection
    \/ UploadDirectory
    \/ Admit
    \/ StartPolling
    \/ StreamEnd
    \/ StreamPending
    \/ \E p \in Paths : FirstPoll(p)
    \/ \E p \in Paths : ReadDone(p)
    \/ \E p \in Paths : ResponseArrives(p)
    \/ \E p \in Paths : BodyArrives(p)

Spec == Init /\ [][Next]_vars

\* The runtime polls the task whenever it is woken, and every started
\* operation (file read, request, body read) eventually resolves.
FairSpec == Spec /\ WF_vars(Next)

-----------------------------------------------------------------------------
(* The same directory uploaded twice to a server that recognises the       *)
(* deviceAssetId of an asset it holds                                      *)

\* How such a server tells: not at all, with 409, or with an error whose
\* body says "already exists".
DedupServers ==
    { [mode |-> m, created |-> c] : m \in {"none", "conflict", "message"}, c \in {200, 201} }

\* The server holds an asset with the id of the request last sent for p.
Knows(p) ==
    LET id == sentIds[p][Len(sentIds[p])]
    IN \E q \in Paths : \E i \in 1..Len(sentIds[q]) :
          /\ sentIds[q][i] = id
          /\ (q # p \/ i < Len(sentIds[p]))

\* The status the server answers the request for p with.
ServerStatus(p) ==
    IF server.mode = "none" \/ ~Knows(p) THEN server.created
    ELSE IF server.mode = "conflict" THEN 409
    ELSE 400

\* The body of its non-2xx answers.
ServerBody(p) ==
    IF server.mode = "message" THEN <<"asset", "already", "exists">> ELSE <<>>

DedupInit ==
    /\ pc = "connect"
    /\ Fresh
    /\ NoHistory
    /\ concurrent \in 1..MaxConcurrent
    /\ directory = "dir"
    /\ recursive \in BOOLEAN
    /\ tree \in { OtherEntries \cup m : m \in SUBSET MediaEntries }
    /\ cli \in { UploadCli(skip) : skip \in BOOLEAN }
    /\ disk = NoFile
    /\ target = resolve(cli, load(disk))
    /\ server \in DedupServers

\* The server is reachable.
DedupCheckConnection == CheckConnection /\ pc' = "upload"

\* The file is there, readable and named in UTF-8.
DedupFirstPoll(p) == FirstPoll(p) /\ inProgress'[p].stage = "reading"

DedupReadDone(p) == ReadDone(p) /\ inProgress'[p].stage = "sending"

\* The response is the one the server gives.
DedupResponse(p) ==
    /\ ResponseArrives(p)
    /\ IF is_success(ServerStatus(p))
       THEN /\ inProgress'[p].stage = "none"
            /\ lastResponse' = [kind |-> "response", status |-> ServerStatus(p),
                                body |-> <<>>, path |-> p]
       ELSE inProgress'[p] = Slot("body", ServerStatus(p))

DedupBody(p) == BodyArrives(p) /\ lastResponse'.body = ServerBody(p)

\* The first run has ended; the same command is started again.
RunAgain ==
    /\ pc = "done"
    /\ run = 1
    /\ run' = 2
    /\ pc' = "connect"
    /\ exit' = "none"
    /\ pingResp' = NoResponse
    /\ files' = <<>>
    /\ iterPos' = 0
    /\ sched' = "fill"
    /\ inProgress' = [p \in Paths |-> Slot("none", 0)]
    /\ pb' = [len |-> 0, pos |-> 0, lines |-> <<>>, finished |-> FALSE]
    /\ saved' = FALSE
    /\ pinged' = NoUrl
    /\ UNCHANGED <<concurrent, directory, recursive, tree, invocations, requests,
                   fileReads, outcomes, lastResponse, cli, disk, target, server,
                   sentIds>>

DedupNext ==
    \/ DedupCheckConnection
    \/ UploadDirectory
    \/ Admit
    \/ StartPolling
    \/ StreamEnd
    \/ \E p \in Paths : DedupFirstPoll(p)
    \/ \E p \in Paths : DedupReadDone(p)
    \/ \E p \in Paths : DedupResponse(p)
    \/ \E p \in Paths : DedupBody(p)
    \/ RunAgain

DedupSpec == DedupInit /\ [][DedupNext]_vars

-----------------------------------------------------------------------------
(* main from the start of the process: user subcommands, and the upload    *)
(* command up to the connectivity check                                    *)

\* The configurations whose current user is unset or stored.
ValidConfigs ==
    { c \in [current_user : {NoneStr} \cup { Some(n) : n \in Names },
             users : [Names -> {NoUser} \cup { UserConfig(u, k) : u \in Urls, k \in Keys }]] :
        c.current_user.some => c.users[c.current_user.v].present }

CliInit ==
    /\ pc = "start"
    /\ Fresh
    /\ NoHistory
    /\ concurrent = 1
    /\ directory = "dir"
    /\ recursive = TRUE
    /\ tree = OtherEntries
    /\ cli = Cli("none", "", NoneUrl, NoneStr, NoneStr, FALSE, FALSE)
    /\ disk \in {NoFile} \cup { to_toml(c) : c \in ValidConfigs }
    /\ target = NoTarget("unresolved")
    /\ server = AnyServer

\* A process that runs a user subcommand with command line c and ends:
\* does is what the subcommand made of the loaded configuration;
\* config.save() writes the file or fails.
UserCommand(c, does) ==
    /\ pc = "start"
    /\ cli' = c
    /\ saved' = does.save
    /\ \E written \in BOOLEAN :
          IF does.save /\ ~written
          THEN /\ disk' = disk
               /\ exit' = "io error"
          ELSE /\ disk' = IF does.save THEN to_toml(does.config) ELSE disk
               /\ exit' = does.exit
    /\ UNCHANGED <<pc, concurrent, directory, recursive, tree, pingResp, files,
                   iterPos, sched, inProgress, invocations, requests, fileReads,
                   outcomes, lastResponse, pb, target, pinged, run, server, sentIds>>

UserAdd ==
    \E n \in Names, u \in Urls, k \in Keys, d \in BOOLEAN :
        UserCommand(Cli("add", n, Some(u), Some(k), NoneStr, d, FALSE),
                    user_add(load(disk), n, u, k, d))

UserList ==
    UserCommand(Cli("list", "", NoneUrl, NoneStr, NoneStr, FALSE, FALSE),
                Done(load(disk), FALSE, "ok"))

UserDelete ==
    \E n \in Names :
        UserCommand(Cli("delete", n, NoneUrl, NoneStr, NoneStr, FALSE, FALSE),
                    user_delete(load(disk), n))

UserDefault ==
    \E n \in Names :
        UserCommand(Cli("default", n, NoneUrl, NoneStr, NoneStr, FALSE, FALSE),
                    user_default(load(disk), n))

\* The upload command up to `let client`: the credentials are resolved.
ResolveUpload ==
    /\ pc = "start"
    /\ \E srv \in {NoneUrl} \cup { Some(u) : u \in Urls },
          key \in {NoneStr} \cup { Some(k) : k \in Keys },
          user \in {NoneStr} \cup { Some(n) : n \in Names } :
          /\ cli' = Cli("upload", "", srv, key, user, FALSE, FALSE)
          /\ target' = resolve(cli', load(disk))
    /\ saved' = FALSE
    /\ pc' = IF target'.ok THEN "connect" ELSE "error"
    /\ exit' = IF target'.ok THEN "none" ELSE target'.err
    /\ UNCHANGED <<concurrent, directory, recursive, tree, pingResp, files,
                   iterPos, sched, inProgress, invocations, requests, fileReads,
                   outcomes, lastResponse, pb, disk, pinged, run, server, sentIds>>

CliNext ==
    \/ UserAdd
    \/ UserList
    \/ UserDelete
    \/ UserDefault
    \/ ResolveUpload
    \/ CheckConnection

CliSpec == CliInit /\ [][CliNext]_vars

-----------------------------------------------------------------------------
(* Properties *)

RECURSIVE SumOver(_, _)
SumOver(S, f) ==
    IF S = {} THEN 0
    ELSE LET x == CHOOSE y \in S : TRUE IN f[x] + SumOver(S \ {x}, f)

\* Number of results upload_file has returned so far, over all paths.
OutcomeCount == SumOver(Paths, [p \in Paths |-> Len(outcomes[p])])

\* Paths whose (first) outcome is of the given kind.
WithKind(kind) == { p \in Paths : outcomes[p] # <<>> /\ outcomes[p][1].kind = kind }

InFiles == { files[i] : i \in 1..Len(files) }

\* C1: for every limit >= 1, in every reachable state the number of
\* upload_file invocations admitted and not yet resolved is at most the limit.
C1_BoundedConcurrency ==
    concurrent >= 1 => Cardinality(Queue) <= concurrent

\* The limit is reached while files are still pending and uploads are running.
C1_Witness ==
    /\ concurrent >= 1
    /\ Cardinality(Queue) = concurrent
    /\ iterPos < Len(files)
    /\ \E p \in Queue : inProgress[p].stage = "sending"

\* C2: every discovered file is handed to upload_file exactly once (never
\* twice, never skipped, nothing else is handed over) and yields exactly one
\* outcome; when the batch finishes the outcomes number the discovered files.
C2_ExactlyOnce ==
    /\ \A p \in Paths : /\ invocations[p] <= 1
                        /\ Len(outcomes[p]) <= invocations[p]
                        /\ (p \notin InFiles => invocations[p] = 0)
    /\ (pc = "done" /\ files # <<>>) =>
          /\ \A p \in InFiles : invocations[p] = 1 /\ Len(outcomes[p]) = 1
          /\ OutcomeCount = Len(files)

\* A finished batch of three files with one outcome of each kind, the
\* first file resolving last.
C2_Witness ==
    /\ pc = "done"
    /\ Len(files) = 3
    /\ WithKind("Uploaded") # {} /\ WithKind("AlreadyExists") # {} /\ WithKind("Failed") # {}
    /\ lastResponse.path = files[1]

\* C3: a failed upload_file yields a Failed outcome for its file only: the
\* step leaves the other futures, the other outcomes and the pending files
\* as they are and the batch running; a finished batch of N files has N
\* outcomes also when some failed.
C3_FailureIsolation ==
    /\ [][ \A p \in Paths :
             (Len(outcomes'[p]) > Len(outcomes[p]) /\ ~outcomes'[p][Len(outcomes'[p])].ok) =>
                /\ pc' = "batch" /\ exit' = "none"
                /\ Len(outcomes'[p]) = Len(outcomes[p]) + 1
                /\ \A q \in Paths \ {p} : /\ inProgress'[q] = inProgress[q]
                                          /\ outcomes'[q] = outcomes[q]
                /\ iterPos' = iterPos /\ files' = files ]_vars
    /\ []((pc = "done" /\ files # <<>>) => OutcomeCount = Len(files))
    /\ []((pc = "batch" /\ WithKind("Failed") # {}) => exit = "none")

\* A finished batch of three files in which the first file failed and the
\* two admitted after it did not.
C3_Witness ==
    /\ pc = "done"
    /\ Len(files) = 3
    /\ WithKind("Failed") = {files[1]}
    /\ OutcomeCount = 3

\* C4: with a limit >= 1, a batch whose uploads all resolve eventually
\* finishes (stream ended, bar finished), and the scheduler never stops
\* with pending files.
C4_BatchTerminates ==
    /\ ((pc = "batch" /\ concurrent >= 1) ~> (pc = "done" /\ pb.finished))
    /\ [](concurrent >= 1 => pc # "hung")

\* A batch with more files than the limit has finished.
C4_Witness ==
    /\ pc = "done" /\ pb.finished
    /\ concurrent >= 1
    /\ Len(files) > concurrent

\* C5: with a limit of zero the upload operation fails with a configuration
\* error before scheduling anything: once files were discovered it has
\* failed, it is never in the batch nor hung, and no upload_file started.
C5_ZeroLimitFailsFast ==
    (concurrent = 0 /\ files # <<>>) =>
        /\ pc = "error"
        /\ \A p \in Paths : invocations[p] = 0

\* C6: the progress counter moves only up, by one per outcome, never
\* exceeds the total, and equals the total when the bar is finished.
C6_ProgressCounter ==
    /\ [](pb.pos <= pb.len /\ pb.pos = OutcomeCount /\ (pb.finished => pb.pos = pb.len))
    /\ [][ \/ pb'.pos = pb.pos /\ outcomes' = outcomes
           \/ pb'.pos = pb.pos + 1 /\
              \E p \in Paths : /\ Len(outcomes'[p]) = Len(outcomes[p]) + 1
                               /\ \A q \in Paths \ {p} : outcomes'[q] = outcomes[q] ]_vars

\* The bar is finished at 3 of 3 after failures and successes.
C6_Witness ==
    /\ pb.finished /\ pb.pos = 3 /\ pb.len = 3
    /\ WithKind("Failed") # {} /\ WithKind("Uploaded") # {}

\* What the connectivity check demands of the ping answer.
PingGood ==
    /\ pingResp.kind = "response"
    /\ pingResp.status \in 200..299
    /\ \E i \in 1..Len(pingResp.body) : pingResp.body[i] = "pong"

\* C7: the connectivity check precedes the batch: after a ping that failed
\* at transport level, had a non-2xx status or a body without "pong", main
\* has aborted with an error and there was no scan, no file read, no upload
\* request; an upload request is only sent after a good ping.
C7_PingFirst ==
    /\ (pc # "connect" /\ ~PingGood) =>
          /\ pc = "error" /\ exit = "Failed to connect to Immich server"
          /\ files = <<>>
          /\ \A p \in Paths : invocations[p] = 0 /\ fileReads[p] = 0 /\ requests[p] = 0
    /\ (pc = "connect") =>
          /\ files = <<>>
          /\ \A p \in Paths : invocations[p] = 0 /\ fileReads[p] = 0 /\ requests[p] = 0
    /\ (\E p \in Paths : requests[p] > 0 \/ fileReads[p] > 0) => PingGood

\* The ping was answered 200 with a body that lacks "pong": main aborted.
C7_Witness ==
    /\ pc = "error"
    /\ pingResp.kind = "response" /\ pingResp.status = 200
    /\ pingResp.body = <<"error">>

\* "already exists" occurs in the body.
SaysAlreadyExists(body) ==
    \E i \in 1..(Len(body) - 1) : body[i] = "already" /\ body[i + 1] = "exists"

\* C8: upload_file classifies every answer: 2xx is Uploaded; 409, or a
\* non-2xx status whose body contains "already exists", is AlreadyExists
\* and a success; any other non-2xx status is Failed with status and body
\* as reason; a transport failure is Failed.
C8_Classification ==
    lastResponse.kind # "none" =>
        LET r == lastResponse
            o == outcomes[r.path][Len(outcomes[r.path])]
        IN /\ outcomes[r.path] # <<>>
           /\ r.kind = "transport" => (~o.ok /\ o.kind = "Failed")
           /\ (r.kind = "response" /\ r.status \in 200..299) =>
                 (o.ok /\ o.kind = "Uploaded")
           /\ (r.kind = "response" /\ r.status \notin 200..299
                 /\ (r.status = 409 \/ SaysAlreadyExists(r.body))) =>
                 (o.ok /\ o.kind = "AlreadyExists")
           /\ (r.kind = "response" /\ r.status \notin 200..299
                 /\ r.status # 409 /\ ~SaysAlreadyExists(r.body)) =>
                 (~o.ok /\ o.kind = "Failed" /\ o.status = r.status /\ o.body = r.body)

\* A 500 whose body says "already exists" was classified AlreadyExists.
C8_Witness ==
    /\ lastResponse.kind = "response"
    /\ lastResponse.status = 500
    /\ lastResponse.body = <<"asset", "already", "exists">>
    /\ outcomes[lastResponse.path][1].kind = "AlreadyExists"

\* C9: the reporter prints a failure line exactly for the Failed outcomes,
\* one per outcome, naming file and reason, none for Uploaded or
\* AlreadyExists; every outcome increments the counter; when every upload
\* is AlreadyExists no failure is reported and completed equals total.
C9_FailureLines ==
    /\ Len(pb.lines) = Cardinality(WithKind("Failed"))
    /\ \A p \in WithKind("Failed") :
          \E i \in 1..Len(pb.lines) :
             /\ pb.lines[i].path = p
             /\ pb.lines[i].reason = outcomes[p][1].reason
             /\ pb.lines[i].status = outcomes[p][1].status
             /\ pb.lines[i].body = outcomes[p][1].body
    /\ \A i \in 1..Len(pb.lines) : pb.lines[i].path \in WithKind("Failed")
    /\ pb.pos = OutcomeCount
    /\ (pc = "done" /\ files # <<>> /\ WithKind("AlreadyExists") = InFiles) =>
          (pb.lines = <<>> /\ pb.pos = pb.len)

\* A finished batch with two failure lines and one file already on the server.
C9_Witness ==
    /\ pc = "done"
    /\ Len(pb.lines) = 2
    /\ Cardinality(WithKind("AlreadyExists")) = 1
    /\ pb.pos = 3

\* C10 as stated: every upload_file invocation that returned has sent
\* exactly one request to the upload endpoint.
C10_ExactlyOneRequest ==
    \A p \in Paths : outcomes[p] # <<>> => requests[p] = 1

\* The failures upload_file returns before it builds the request.
LocalFailure(o) == ~o.ok /\ o.reason \in {"io error", "Invalid filename"}

\* C10 amended: an upload_file invocation sends at most one request (no
\* retry), and exactly one unless it failed before the request was built
\* (metadata, filename or file read error), in which case it sends none.
C10_AtMostOneRequest ==
    \A p \in Paths :
        /\ requests[p] <= invocations[p]
        /\ requests[p] <= 1
        /\ outcomes[p] # <<>> =>
              (requests[p] = (IF LocalFailure(outcomes[p][1]) THEN 0 ELSE 1))

\* An upload failed at transport level and was not sent again, while
\* another failed before any request.
C10_Witness ==
    /\ \E p \in Paths : /\ outcomes[p] # <<>>
                        /\ outcomes[p][1].reason = "transport error"
                        /\ requests[p] = 1
    /\ \E p \in Paths : /\ outcomes[p] # <<>>
                        /\ LocalFailure(outcomes[p][1])
                        /\ requests[p] = 0

\* C11: once the ping succeeded and the directory is valid, per-file
\* failures never become a process-level error: main is never in error,
\* and when it ends it ends with success, whatever the outcomes were.
C11_FailuresKeepSuccess ==
    (PingGood /\ directory = "dir" /\ pc # "connect") =>
        /\ pc # "error"
        /\ exit \in {"none", "ok"}
        /\ (pc = "done" => exit = "ok")

\* A finished batch in which every one of three files failed ended "ok".
C11_Witness ==
    /\ pc = "done" /\ exit = "ok"
    /\ Len(files) = 3
    /\ WithKind("Failed") = InFiles

\* C12: when the target path is not a directory, the upload operation
\* fails with an error before any file is scanned and before any upload
\* request is sent.
C12_NotADirectory ==
    (directory # "dir" /\ pc \notin {"connect", "upload"}) =>
        /\ pc = "error"
        /\ exit \in {"is not a directory", "Failed to connect to Immich server"}
        /\ (PingGood => exit = "is not a directory")
        /\ files = <<>>
        /\ pb.len = 0
        /\ \A p \in Paths : invocations[p] = 0 /\ fileReads[p] = 0 /\ requests[p] = 0

\* The path is a regular file, the ping succeeded, and main failed.
C12_Witness ==
    /\ directory = "file"
    /\ PingGood
    /\ pc = "error" /\ exit = "is not a directory"

\* The media files the scan is to find in the tree.
InScope ==
    { e.path : e \in { x \in tree : /\ ~x.err
                                    /\ x.ftype = "file"
                                    /\ x.mime \in {"image", "video"}
                                    /\ (recursive \/ x.depth = 1) } }

\* C13: when discovery yields no media file, the upload operation ends at
\* once with success: no upload_file is started, the progress counter is
\* not advanced, no batch is run, for every concurrency limit.
C13_NothingToUpload ==
    (directory = "dir" /\ InScope = {} /\ pc \notin {"connect", "upload"} /\ PingGood) =>
        /\ pc = "done" /\ exit = "ok"
        /\ files = <<>>
        /\ pb.pos = 0 /\ pb.len = 0 /\ ~pb.finished
        /\ Queue = {} /\ iterPos = 0
        /\ \A p \in Paths : invocations[p] = 0 /\ requests[p] = 0 /\ outcomes[p] = <<>>

\* The only media file lies below the scanned depth, the limit is zero,
\* and the operation ended with success.
C13_Witness ==
    /\ pc = "done" /\ exit = "ok"
    /\ concurrent = 0
    /\ ~recursive
    /\ \E e \in tree : e.path = "sub/c.png"
    /\ files = <<>>

\* C14: the files handed to the scheduler are exactly the readable regular
\* files in scope whose type is image or video (whole tree when recursive,
\* direct children otherwise), each once; directories, symlinks, other
\* types and unreadable entries are left out, and an unreadable entry never
\* aborts the scan.
C14_Discovery ==
    /\ (directory = "dir" /\ pc \notin {"connect", "upload", "error"}) =>
          /\ InFiles = InScope
          /\ Len(files) = Cardinality(InScope)
    /\ (directory = "dir" /\ PingGood /\ (\E e \in tree : e.err)) => pc # "error"
    /\ \A p \in Paths : invocations[p] > 0 => p \in InScope

\* A non-recursive scan of a tree holding all three media files found the
\* two direct children, past the unreadable entry.
C14_Witness ==
    /\ pc = "batch"
    /\ ~recursive
    /\ MediaEntries \subseteq tree
    /\ (\E e \in tree : e.err)
    /\ files = <<"a.jpg", "b.mp4">>

\* C16: the scheduler is work-conserving and admits in discovery order:
\* it waits for completions only with `limit` uploads in flight or with no
\* file pending, and the future it admits is the next file of the scan.
C16_WorkConserving ==
    /\ []((pc = "batch" /\ sched = "poll") =>
             (Cardinality(Queue) >= concurrent \/ iterPos >= Len(files)))
    /\ [][ \A p \in Paths :
             (inProgress[p].stage = "none" /\ inProgress'[p].stage # "none") =>
                /\ iterPos < Len(files)
                /\ p = files[iterPos + 1]
                /\ iterPos' = iterPos + 1 ]_vars

\* After a completion the third of three files was admitted and the
\* scheduler waits again with two uploads in flight.
C16_Witness ==
    /\ pc = "batch" /\ sched = "poll"
    /\ concurrent = 2
    /\ OutcomeCount = 1
    /\ iterPos = 3
    /\ Cardinality(Queue) = 2

\* C15: uploading the same path twice to a server that deduplicates on
\* deviceAssetId sends the same deviceAssetId both times and yields
\* Uploaded, then AlreadyExists (Uploaded again if the server does not
\* deduplicate); neither upload fails and main does not fail.
C15_Idempotent ==
    /\ \A p \in Paths :
          /\ Len(sentIds[p]) >= 2 => sentIds[p][1] = sentIds[p][2]
          /\ Len(outcomes[p]) >= 1 => outcomes[p][1].kind = "Uploaded"
          /\ Len(outcomes[p]) >= 2 =>
                outcomes[p][2].kind =
                    (IF server.mode = "none" THEN "Uploaded" ELSE "AlreadyExists")
          /\ Len(outcomes[p]) <= 2
    /\ pb.lines = <<>>
    /\ pc # "error" /\ exit \in {"none", "ok"}

\* The second run has ended; the server, which reports duplicates in the
\* body of a 400, was sent each of three files twice.
C15_Witness ==
    /\ run = 2 /\ pc = "done" /\ exit = "ok"
    /\ server.mode = "message"
    /\ Len(files) = 3
    /\ \A p \in InFiles : /\ Len(sentIds[p]) = 2
                          /\ outcomes[p][2].kind = "AlreadyExists"
                          /\ outcomes[p][2].ok

\* C17: with --skip-existing, a file uploaded by the first run is skipped
\* by the second: no second upload request is sent for it.
C17_SkipExisting ==
    \A p \in Paths :
        (cli.skip_existing /\ Len(outcomes[p]) >= 1 /\ outcomes[p][1].kind = "Uploaded")
            => Len(sentIds[p]) <= 1

\* C18: a server URL given on the command line is the one main uses for
\* the ping and the uploads, with or without a key on the command line
\* and whatever the configuration holds; likewise for a key.
C18_CliOverrides ==
    (cli.command = "upload" /\ pc \in {"connect", "upload"}) =>
        /\ cli.server.some =>
              /\ target.server_url = Url(cli.server.v.base, 0)
              /\ (pc = "upload" => pinged = Url(cli.server.v.base, 0))
        /\ cli.key.some => target.api_key = cli.key.v

\* The names the file stores a user under.
Stored == { u.name : u \in disk.users }

\* C19: from a configuration whose current user is unset or stored, after
\* any sequence of user add, delete and default commands the current user
\* is unset or names a stored user.
C19_CurrentUserStored ==
    /\ disk.current_user \subseteq Stored
    /\ Cardinality(disk.current_user) <= 1
    /\ \A u \in disk.users, v \in disk.users : u.name = v.name => u = v

\* The current user was deleted: it is unset while another user is stored.
C19_Witness ==
    /\ cli.command = "delete" /\ exit = "ok" /\ saved
    /\ disk.current_user = {}
    /\ Stored = Names \ {cli.name}

\* C20: a user delete or user default that names a user not in the
\* configuration ends with a "not found" error, saves nothing and leaves
\* the file as it was.
C20_NotFoundChangesNothing ==
    [][ (pc = "start" /\ cli'.command \in {"delete", "default"} /\ cli'.name \notin Stored) =>
           /\ exit' = "User not found"
           /\ ~saved'
           /\ disk' = disk ]_vars

\* "user default bob" failed on a file that stores alice as current user.
C20_Witness ==
    /\ cli.command = "default" /\ cli.name = "bob"
    /\ exit = "User not found" /\ ~saved
    /\ disk.current_user = {"alice"}
    /\ Stored = {"alice"}
====
